---- MODULE Spec2Model ----
(***************************************************************************)
(* Token lifecycle of the Salesforce client package: TokenFetcher.Fetch    *)
(* (sign, token exchange, introspect, retried as one unit under a backoff  *)
(* policy) and the TokenCache built around it (salesforce/token.go).       *)
(*                                                                         *)
(* The single-slot cache container itself (cache.KeylessRecordCache of    *)
(* ello-golang-cache) is not part of salesforce/; its state machine        *)
(* {Empty, Populating, Valid, Refreshing} is taken from the package's      *)
(* specification.  Everything of TokenFetcher and the TokenCache wrapper   *)
(* is taken from salesforce/token.go.                                      *)
(***************************************************************************)
EXTENDS Integers, FiniteSets, Sequences, TLC

\* ------------------------------------------------------------------ bounds

\* number of concurrent callers of TokenCache.Get
NumCallers == 2
\* number of attempts after which the installed backoff policy must say Stop
MaxAttempts == 2

\* ------------------------------------------------------- program constants

\* const tokenTtl = 1 * time.Hour, in minutes (also the provider's token TTL)
tokenTtl == 60
\* const tokenCacheTtl = 58 * time.Minute, in minutes
tokenCacheTtl == 58

\* ------------------------------------------------------------- input sets

Callers == 1..NumCallers
\* goroutines that can run a Fetch for the cache
Procs == {"p1", "p2"}
\* access tokens the provider can issue
Tokens == {"t1", "t2"}
\* the zero value of string
NoToken == ""
\* HTTP status codes an endpoint can answer with
Statuses == {199, 200, 299, 300}
NoStatus == 0
\* response bodies of the token endpoint: unreadable stream, text that is not
\* JSON, the JSON literal null, a JSON object with or without access_token
Bodies ==
    {[kind |-> k, token |-> NoToken] : k \in {"unreadable", "notjson", "null", "object"}}
    \cup {[kind |-> "object", token |-> t] : t \in Tokens}
\* errors an attempt can end with; "nil" is the nil error
Errors == {"sign", "transport", "read", "decode", "status"}
NoError == "nil"

VARIABLES
    keyValid,   \* tf.cfg.privateKey parses as an RSA PEM
    fetch,      \* per goroutine: position inside TokenFetcher.Fetch
    cache,      \* the single cached entry and its state tag
    callers,    \* per caller: position inside TokenCache.Get and its result
    lastOutcome,\* what the cache did with the latest fetch that returned
    lastGet,    \* the latest call of Get since the cache last took a fetch
                \* result, or the latest one that this result answered: who
                \* called and the state it found
    crashed,    \* the process died of a nil pointer dereference
    ctor,       \* the call of NewTokenFetcher / NewTokenCache: its inputs,
                \* position and result
    req,        \* the RequestHelper: its construction and the operation
                \* (Query, Post, Patch, Delete) that is running on it
    hist        \* one invocation of TokenFetcher.Fetch followed on its own:
                \* the assertions it signed, the HTTP calls it made and the
                \* state of the backoff policy (kept only while hist.on)

vars == <<keyValid, fetch, cache, callers, lastOutcome, lastGet, crashed, ctor, req,
          hist>>

\* the state of the token fetcher and the token cache
tokenVars == <<keyValid, fetch, cache, callers, lastOutcome, lastGet, hist>>

\* ---------------------------------------------------------------- helpers

IdleFetch ==
    [pc |-> "idle", attempt |-> 0, tokStatus |-> NoStatus, respTok |-> NoToken,
     tok |-> NoToken, introStatus |-> NoStatus, ret |-> NoToken, err |-> NoError]

IdleCaller == [pc |-> "idle", val |-> NoToken, err |-> NoError]

NoGet == [who |-> 0, saw |-> "none"]

\* ------------------------------------------------------------ TokenFetcher

\* generateJwt: jwt.ParseRSAPrivateKeyFromPEM(tf.cfg.privateKey) decides
generateJwtFails == ~keyValid

\* a decoder that reports no error
unmarshalFails_never(body) == FALSE

\* json.Unmarshal(resBody, &sfRes) fails
unmarshalFails(body) == body.kind = "notjson"

\* a decoder that loses the access_token field
decodedToken_lost(body) == NoToken

\* sfRes.Token after json.Unmarshal of a JSON object: the access_token field,
\* the zero value when the object carries none
decodedToken(body) == body.token

\* a status check with the upper limit off by one
introspectRejects_upTo300(status) == status < 200 \/ status > 300

introspectRejects(status) == status < 200 \/ status > 299

\* an error path that hands back the token it holds together with the error
failedResult_leak(tok) == tok

\* the string every error path of generateJwt, obtainToken and introspect
\* returns beside the error: return "", err
failedResult(tok) == NoToken

\* one attempt has failed with error e: control returns to RetryWithData
AttemptFailed(f, e) ==
    [f EXCEPT !.pc = "backoff", !.err = e, !.ret = failedResult(f.tok),
              !.tok = NoToken, !.respTok = NoToken]

\* a retry that goes straight to the token endpoint with the assertion of
\* the attempt before
StartAttempt_reuse(f) ==
    [IdleFetch EXCEPT !.pc = IF f.attempt = 0 THEN "sign" ELSE "token",
                      !.attempt = f.attempt + 1]

\* start of the operation passed to backoff.RetryWithData
StartAttempt(f) ==
    [IdleFetch EXCEPT !.pc = "sign", !.attempt = f.attempt + 1]

\* an attempt whose success is handed to the backoff policy like a failure
AttemptSucceeded_consults(f) ==
    [f EXCEPT !.pc = "backoff", !.ret = f.tok, !.err = NoError]

\* the operation returned (token, nil): RetryWithData returns it
AttemptSucceeded(f) == [f EXCEPT !.pc = "done", !.ret = f.tok, !.err = NoError]

\* no invocation of Fetch is followed
NoHist ==
    [on |-> FALSE, jwts |-> 0, sentJwt |-> 0, tokenCalls |-> 0,
     introCalls |-> 0, calls |-> 0, body |-> "none", introTok |-> NoToken,
     polls |-> 0, policy |-> 0, policyBefore |-> 0]

\* generateJwt built and signed an assertion with an ID of its own
\* (uuid.New()): the jwts-th assertion of the invocation
LogSign(h) ==
    IF h.on /\ ~generateJwtFails THEN [h EXCEPT !.jwts = @ + 1] ELSE h

\* obtainToken called the token endpoint with the assertion it was given and
\* got a body of this kind ("none": no response)
LogTokenCall(h, kind) ==
    IF h.on
    THEN [h EXCEPT !.tokenCalls = @ + 1, !.calls = @ + 1, !.sentJwt = h.jwts,
                   !.body = kind]
    ELSE h

\* introspect called the introspect endpoint with the token tok
LogIntrospect(h, tok) ==
    IF h.on
    THEN [h EXCEPT !.introCalls = @ + 1, !.calls = @ + 1, !.introTok = tok]
    ELSE h

\* RetryWithData asked b.NextBackOff(), which moves the policy on to its next
\* interval; when the answer is a delay the operation starts again
LogNextBackOff(h, again) ==
    IF ~h.on THEN h
    ELSE IF again
    THEN [h EXCEPT !.polls = @ + 1, !.policy = @ + 1, !.tokenCalls = 0,
                   !.introCalls = 0, !.body = "none", !.introTok = NoToken]
    ELSE [h EXCEPT !.polls = @ + 1, !.policy = @ + 1]

\* Fetch, first step of an attempt: tok, err := tf.generateJwt()
Sign(p) ==
    /\ UNCHANGED <<ctor, req>>
    /\ ~crashed
    /\ fetch[p].pc = "sign"
    /\ fetch' = [fetch EXCEPT ![p] =
                    IF generateJwtFails
                    THEN AttemptFailed(@, "sign")
                    ELSE [@ EXCEPT !.pc = "token"]]
    /\ hist' = LogSign(hist)
    /\ UNCHANGED <<keyValid, cache, callers, lastOutcome, lastGet, crashed>>

\* an obtainToken that returns the decoded token without introspecting it
TokenDecoded_noIntrospect(f, body) ==
    [f EXCEPT !.pc = "done", !.ret = decodedToken(body), !.err = NoError]

\* the last line of obtainToken: return tf.introspect(sfRes.Token)
TokenDecoded(f, body) ==
    [f EXCEPT !.pc = "introspect", !.tok = decodedToken(body)]

\* obtainToken up to the call of introspect
ObtainToken(p) ==
    /\ UNCHANGED <<ctor, req>>
    /\ ~crashed
    /\ fetch[p].pc = "token"
    /\ \/ \* tf.httpClient.Do(req) returns an error
          /\ fetch' = [fetch EXCEPT ![p] = AttemptFailed(@, "transport")]
          /\ hist' = LogTokenCall(hist, "none")
          /\ UNCHANGED crashed
       \/ \E status \in Statuses, body \in Bodies :
            LET f == [fetch[p] EXCEPT !.tokStatus = status,
                                      !.respTok = body.token] IN
            /\ hist' = LogTokenCall(hist, body.kind)
            /\ CASE body.kind = "unreadable" ->
                       /\ fetch' = [fetch EXCEPT ![p] = AttemptFailed(f, "read")]
                       /\ UNCHANGED crashed
                 [] unmarshalFails(body) ->
                       /\ fetch' = [fetch EXCEPT ![p] = AttemptFailed(f, "decode")]
                       /\ UNCHANGED crashed
                 [] body.kind = "null" ->
                       \* sfRes stays a nil pointer: sfRes.Token panics
                       /\ crashed' = TRUE
                       /\ UNCHANGED fetch
                 [] OTHER ->
                       /\ fetch' = [fetch EXCEPT ![p] = TokenDecoded(f, body)]
                       /\ UNCHANGED crashed
    /\ UNCHANGED <<keyValid, cache, callers, lastOutcome, lastGet>>

\* introspect(token).  The status of the token response is no longer looked
\* at once introspect is called (it never is: obtainToken does not read it).
Introspect(p) ==
    /\ UNCHANGED <<ctor, req>>
    /\ ~crashed
    /\ fetch[p].pc = "introspect"
    /\ hist' = LogIntrospect(hist, fetch[p].tok)
    /\ \/ fetch' = [fetch EXCEPT ![p] =
                        AttemptFailed([@ EXCEPT !.tokStatus = NoStatus], "transport")]
       \/ \E status \in Statuses :
            LET f == [fetch[p] EXCEPT !.introStatus = status,
                                      !.tokStatus = NoStatus] IN
            fetch' = [fetch EXCEPT ![p] =
                        IF introspectRejects(status)
                        THEN AttemptFailed(f, "status")
                        ELSE AttemptSucceeded(f)]
    /\ UNCHANGED <<keyValid, cache, callers, lastOutcome, lastGet, crashed>>

\* backoff.RetryWithData after a failed attempt: b.NextBackOff() is Stop, or a
\* delay after which the operation runs again
Backoff(p) ==
    /\ UNCHANGED <<ctor, req>>
    /\ ~crashed
    /\ fetch[p].pc = "backoff"
    /\ \/ \* next == Stop: return res, err
          /\ fetch' = [fetch EXCEPT ![p] =
                       [IdleFetch EXCEPT !.pc = "done", !.attempt = fetch[p].attempt,
                                         !.ret = fetch[p].ret, !.err = fetch[p].err]]
          /\ hist' = LogNextBackOff(hist, FALSE)
       \/ /\ fetch[p].attempt < MaxAttempts
          /\ fetch' = [fetch EXCEPT ![p] = StartAttempt(@)]
          /\ hist' = LogNextBackOff(hist, TRUE)
    /\ UNCHANGED <<keyValid, cache, callers, lastOutcome, lastGet, crashed>>

\* ------------------------------------------------------------- TokenCache

\* a wrapper that returns the zero value instead of the cached value
TokenCacheGet_zero(val, err) == <<NoToken, err>>

\* a wrapper that swallows the error of the inner cache
TokenCacheGet_noErr(val, err) == <<val, NoError>>

\* TokenCache.Get: return tc.c.Get(ctx)
TokenCacheGet(val, err) == <<val, err>>

Returned(val, err) ==
    [pc |-> "returned", val |-> TokenCacheGet(val, err)[1],
     err |-> TokenCacheGet(val, err)[2]]

Waiting == [IdleCaller EXCEPT !.pc = "waiting"]

IdleProc == CHOOSE p \in Procs : fetch[p].pc = "idle"

\* the fetcher wired in by NewTokenCache is tf: a fetch of the cache is a
\* call of tf.Fetch
StartFetch(fs) == [fs EXCEPT ![IdleProc] = StartAttempt(IdleFetch)]

\* a timer that also fires while a refresh is running
TimerMayFire_always(state) == state \in {"Valid", "Refreshing"}

\* the refresh timer may start a refresh
TimerMayFire(state) == state = "Valid"

\* a Get on this state starts a population
GetMustFetch(state) == state = "Empty"

\* a Get on this state waits for the fetch in flight
GetMustWait(state) == state = "Populating"

\* Get(ctx) called by caller c
Get(c) ==
    /\ UNCHANGED <<ctor, req, hist>>
    /\ ~crashed
    /\ callers[c].pc = "idle"
    /\ IF GetMustFetch(cache.state)
       THEN /\ \E p \in Procs : fetch[p].pc = "idle"
            /\ fetch' = StartFetch(fetch)
            /\ cache' = [cache EXCEPT !.state = "Populating"]
            /\ callers' = [callers EXCEPT ![c] = Waiting]
       ELSE IF GetMustWait(cache.state)
       THEN /\ callers' = [callers EXCEPT ![c] = Waiting]
            /\ UNCHANGED <<fetch, cache>>
       ELSE /\ callers' = [callers EXCEPT ![c] =
                              Returned(cache.value, NoError)]
            /\ UNCHANGED <<fetch, cache>>
    /\ lastGet' = [who |-> c, saw |-> cache.state]
    /\ UNCHANGED <<keyValid, lastOutcome, crashed>>

\* the caller consumes the result of its Get
Release(c) ==
    /\ UNCHANGED <<ctor, req, hist>>
    /\ ~crashed
    /\ callers[c].pc = "returned"
    /\ callers' = [callers EXCEPT ![c] = IdleCaller]
    /\ UNCHANGED <<keyValid, fetch, cache, lastOutcome, lastGet, crashed>>

\* the error of a cancelled context
ContextCanceled == "context canceled"

\* a Fetch that gives up when the context of a caller is cancelled
fetchOnCancel_abort(f) ==
    IF f.pc \in {"idle", "done"} THEN f
    ELSE [IdleFetch EXCEPT !.pc = "done", !.attempt = f.attempt,
                           !.err = "transport"]

\* Fetch(_ context.Context): the context is discarded, and the requests of
\* obtainToken and introspect are built without one
fetchOnCancel(f) == f

\* the context that caller c passed to Get is cancelled while c waits
Cancel(c) ==
    /\ UNCHANGED <<ctor, req, hist>>
    /\ ~crashed
    /\ callers[c].pc = "waiting"
    /\ callers' = [callers EXCEPT ![c] = Returned(NoToken, ContextCanceled)]
    /\ fetch' = [p \in Procs |-> fetchOnCancel(fetch[p])]
    /\ UNCHANGED <<keyValid, cache, lastOutcome, lastGet, crashed>>

\* a timer set to the lifetime of the token instead of the refresh interval
RefreshDue_atExpiry == cache.age > tokenTtl

\* the refresh interval of the entry has elapsed
RefreshDue == cache.age >= tokenCacheTtl

\* the background refresh timer
RefreshTimer ==
    /\ UNCHANGED <<ctor, req, hist>>
    /\ ~crashed
    /\ TimerMayFire(cache.state)
    /\ RefreshDue
    /\ \E p \in Procs : fetch[p].pc = "idle"
    /\ fetch' = StartFetch(fetch)
    /\ cache' = [cache EXCEPT !.state = "Refreshing"]
    /\ UNCHANGED <<keyValid, callers, lastOutcome, lastGet, crashed>>

\* a cache that drops its entry when a fetch fails
Stored_dropOnFailure(entry, ret, err) ==
    IF err = NoError
    THEN [state |-> "Valid", value |-> ret, age |-> 0]
    ELSE [state |-> "Empty", value |-> NoToken, age |-> 0]

\* a cache whose refresh leaves the value it already holds in place
Stored_keepsOld(entry, ret, err) ==
    IF err = NoError
    THEN [state |-> "Valid",
          value |-> IF entry.value # NoToken THEN entry.value ELSE ret,
          age |-> 0]
    ELSE IF entry.state \in {"Valid", "Refreshing"}
    THEN [entry EXCEPT !.state = "Valid"]
    ELSE [state |-> "Empty", value |-> NoToken, age |-> 0]

\* entry after a fetch returned (ret, err)
Stored(entry, ret, err) ==
    IF err = NoError
    THEN [state |-> "Valid", value |-> ret, age |-> 0]
    ELSE IF entry.state \in {"Valid", "Refreshing"}
    THEN [entry EXCEPT !.state = "Valid"]
    ELSE [state |-> "Empty", value |-> NoToken, age |-> 0]

\* what happened to the entry when a fetch returned err: a new value was
\* stored, the old value was kept, or the entry was left empty
Outcome(entry, err) ==
    IF err = NoError THEN "stored"
    ELSE IF entry.state \in {"Valid", "Refreshing"} THEN "kept"
    ELSE "emptied"

\* the fetch of goroutine p has returned: the cache stores the outcome and
\* releases the waiters
FetchReturn(p) ==
    /\ UNCHANGED <<ctor, req, hist>>
    /\ ~crashed
    /\ fetch[p].pc = "done"
    /\ cache' = Stored(cache, fetch[p].ret, fetch[p].err)
    /\ callers' = [c \in Callers |->
                     IF callers[c].pc = "waiting"
                     THEN Returned(fetch[p].ret, fetch[p].err)
                     ELSE callers[c]]
    /\ lastOutcome' = Outcome(cache, fetch[p].err)
    /\ lastGet' = IF lastGet # NoGet /\ callers[lastGet.who].pc = "waiting"
                  THEN lastGet ELSE NoGet
    /\ fetch' = [fetch EXCEPT ![p] = IdleFetch]
    /\ UNCHANGED <<keyValid, crashed>>

\* the next instant at which the age of the entry matters: the end of the
\* refresh interval, then the first minute beyond the lifetime of the token
NextInstant(age) ==
    IF age < tokenCacheTtl THEN tokenCacheTtl ELSE tokenTtl + 1

\* Time passes up to the next such instant.  The age of the entry counts from
\* the moment it was stored, in minutes; the token is at least that old.  The
\* timer fires when it is due: no time passes while a valid entry is due for
\* refresh, but any amount can pass while a Fetch is running.
Tick ==
    /\ UNCHANGED <<ctor, req, hist>>
    /\ ~crashed
    /\ cache.state \in {"Valid", "Refreshing"}
    /\ ~(TimerMayFire(cache.state) /\ RefreshDue)
    /\ cache.age <= tokenTtl
    /\ cache' = [cache EXCEPT !.age = NextInstant(@)]
    /\ UNCHANGED <<keyValid, fetch, callers, lastOutcome, lastGet, crashed>>

\* --------------------------------------------------------- request helper

\* arguments of NewRequestHelper; "nil" is the nil interface value
Clients == {"nil", "client"}
TokenGetters == {"nil", "tokenGetter"}
BaseUrls == {"", ":", "baseUrl"}
ApiVersions == {-1, 0, 1, 55}

\* the operations of the helper
Ops == {"Query", "Post", "Patch", "Delete"}

\* query texts, as sequences of characters
Queries == {<<"a">>, <<"a", " ", "b">>, <<"a", "+", "b">>}
NoQuery == <<>>

\* records handed to Post and Patch: one that json.Marshal encodes, one that
\* it rejects
Records == {"record", "unencodable"}
NoRecord == "none"

\* statuses of the data endpoints
ReqStatuses == {199, 200, 201, 299, 300}

\* response bodies: unreadable, not JSON, the JSON null, or a JSON object
\* (for Post with the fields id and success)
NoBody == [kind |-> "none", id |-> "", success |-> FALSE]
ReqBodies ==
    {[kind |-> k, id |-> "", success |-> FALSE] :
        k \in {"unreadable", "notjson", "null"}}
    \cup {[kind |-> "object", id |-> i, success |-> b] :
            i \in {"", "001xx"}, b \in BOOLEAN}

\* error values: a message, the error it wraps (%w), and for the errors that
\* carry them a status code and a query
ErrNil == [msg |-> "nil", cause |-> "nil", statusCode |-> 0, queryUsed |-> NoQuery]
Plain(e) == [ErrNil EXCEPT !.msg = e]
Wrap(msg, e) == [ErrNil EXCEPT !.msg = msg, !.cause = e]
StatusError(msg, status) == [ErrNil EXCEPT !.msg = msg, !.statusCode = status]

\* QueryError{statusCode, queryUsed}
QueryError(status, q) ==
    [ErrNil EXCEPT !.msg = "error querying salesforce",
                   !.statusCode = status, !.queryUsed = q]

\* errors.Is(err, target): err is target or wraps it
errorsIs(err, target) == err.msg = target \/ err.cause = target

\* url.QueryEscape of one character, for the characters of Queries
escapeChar(ch) ==
    IF ch = " " THEN <<"+">>
    ELSE IF ch = "+" THEN <<"%", "2", "B">>
    ELSE <<ch>>

RECURSIVE QueryEscape(_)
\* url.QueryEscape
QueryEscape(q) ==
    IF q = <<>> THEN <<>> ELSE escapeChar(Head(q)) \o QueryEscape(Tail(q))

\* the nil *RequestHelper
NilHelper ==
    [set |-> FALSE, client |-> "nil", tokenGetter |-> "nil", baseUrl |-> "",
     apiVersion |-> 0]

\* &RequestHelper{tokenGetter, client, baseUrl, apiVersion}
Helper(client, tg, baseUrl, apiVersion) ==
    [set |-> TRUE, client |-> client, tokenGetter |-> tg, baseUrl |-> baseUrl,
     apiVersion |-> apiVersion]

\* no RequestHelper has been asked for
NoRequest ==
    [pc |-> "none", made |-> "none", args |-> NilHelper, helper |-> NilHelper,
     herr |-> ErrNil,
     op |-> "none", q |-> NoQuery, record |-> NoRecord, escaped |-> NoQuery,
     got |-> NoToken, bearer |-> NoToken, prevGot |-> NoToken,
     getCalls |-> 0, doCalls |-> 0, tokenErr |-> NoError,
     status |-> NoStatus, body |-> NoBody,
     resp |-> "nil", id |-> "", code |-> 0, err |-> ErrNil]

\* a version check that lets negative versions through
versionMissing_zeroOnly(apiVersion) == apiVersion = 0

\* if apiVersion <= 0
versionMissing(apiVersion) == apiVersion <= 0

\* the error NewRequestHelper returns for its arguments
helperError(tg, baseUrl, apiVersion) ==
    IF baseUrl = "" THEN Plain("baseUrl needs to be provided")
    ELSE IF versionMissing(apiVersion)
    THEN Plain("salesfore apiVersion needs to be provided")
    ELSE IF tg = "nil" THEN Plain("tokenGetter needs to be provided")
    ELSE ErrNil

NewRequestHelper(client, tg, baseUrl, apiVersion) ==
    /\ ~crashed
    /\ req.pc = "none"
    /\ LET e == helperError(tg, baseUrl, apiVersion) IN
       req' = [req EXCEPT
                 !.pc = IF e = ErrNil THEN "ready" ELSE "failed",
                 !.made = "NewRequestHelper",
                 !.args = Helper(client, tg, baseUrl, apiVersion),
                 !.helper = IF e = ErrNil
                            THEN Helper(client, tg, baseUrl, apiVersion)
                            ELSE NilHelper,
                 !.herr = e]
    /\ UNCHANGED <<tokenVars, crashed, ctor>>

\* &RequestHelper{...} written out inside the package, as the tests do: no
\* argument is checked
RequestHelperLiteral(client, tg, baseUrl, apiVersion) ==
    /\ ~crashed
    /\ req.pc = "none"
    /\ req' = [req EXCEPT !.pc = "ready", !.made = "literal",
                          !.args = Helper(client, tg, baseUrl, apiVersion),
                          !.helper = Helper(client, tg, baseUrl, apiVersion)]
    /\ UNCHANGED <<tokenVars, crashed, ctor>>

\* an operation that goes on after an error instead of returning it
Done_retry(r, e) ==
    IF r.pc = "send" THEN [r EXCEPT !.err = e]
    ELSE [r EXCEPT !.pc = "done", !.err = e]

\* the operation returns the error e, with the result values it holds
Done(r, e) == [r EXCEPT !.pc = "done", !.err = e]

\* json.Marshal(record) fails
marshalFails(record) == record = "unencodable"

\* a request constructor that takes every URL
newRequestFails_never(baseUrl) == FALSE

\* http.NewRequest fails: the URL does not parse
newRequestFails(baseUrl) == baseUrl = ":"

\* the operations with a payload
HasPayload(op) == op \in {"Post", "Patch"}

\* the call of an operation, up to the call of the token source: the URL, the
\* payload and the request are built
Call(op, q, record) ==
    /\ ~crashed
    /\ req.pc = "ready"
    /\ (op = "Query") = (q # NoQuery)
    /\ HasPayload(op) = (record # NoRecord)
    /\ LET r == [req EXCEPT !.op = op, !.q = q, !.record = record] IN
       req' = IF HasPayload(op) /\ marshalFails(record)
              THEN Done(r, Wrap("unable to create salesforce payload", "marshal"))
              ELSE IF newRequestFails(req.helper.baseUrl)
              THEN Done(r, Wrap("unable to create salesforce request", "parse url"))
              ELSE [r EXCEPT !.pc = "token", !.escaped = QueryEscape(q)]
    /\ UNCHANGED <<tokenVars, crashed, ctor>>

\* a token error whose cause is lost (formatted with %v)
tokenError_lost(e) == Plain("unable to create salesforce auth token")

\* Query and Patch: fmt.Errorf("unable to create salesforce auth token: %w", err)
tokenError(e) == Wrap("unable to create salesforce auth token", e)

\* Post and Delete: the error of the token source is propagated
propagated(e) == Plain(e)

\* a helper that goes on using the token of its previous call
bearerOf_stale(r, token) == IF r.prevGot # NoToken THEN r.prevGot ELSE token

\* "Authorization": {"Bearer " + token}, token being the local variable that
\* Get has just filled
bearerOf(r, token) == token

\* h.tokenGetter.Get(ctx) returns (token, e)
GetToken(token, e) ==
    /\ ~crashed
    /\ req.pc = "token"
    /\ (e = NoError) \/ (token = NoToken)
    /\ IF req.helper.tokenGetter = "nil"
       THEN \* Get is called on a nil interface value
            crashed' = TRUE /\ UNCHANGED req
       ELSE /\ LET r == [req EXCEPT !.getCalls = @ + 1, !.tokenErr = e] IN
               req' = IF e # NoError
                      THEN IF req.op \in {"Query", "Patch"}
                           THEN Done(r, tokenError(e))
                           ELSE Done(r, propagated(e))
                      ELSE [r EXCEPT !.pc = "send", !.got = token,
                                     !.bearer = bearerOf(r, token)]
            /\ UNCHANGED crashed
    /\ UNCHANGED <<tokenVars, ctor>>

\* a Query that accepts every 2xx status
queryAccepts_2xx(status) == status >= 200 /\ status <= 299

\* if resp.StatusCode != 200 { return nil, QueryError{...} }
queryAccepts(status) == status = 200

\* Query after the response arrived
QueryFinish(r, status, body) ==
    IF ~queryAccepts(status) THEN Done(r, QueryError(status, r.q))
    ELSE IF body.kind = "unreadable" THEN Done(r, Plain("read"))
    ELSE IF body.kind = "notjson" THEN Done(r, Plain("decode"))
    ELSE [r EXCEPT !.pc = "done", !.err = ErrNil,
                   !.resp = IF body.kind = "null" THEN "nil" ELSE "decoded"]

\* a Patch that rejects status 200
patchRejects_200(status) == status <= 200 \/ status > 299

\* if resp.StatusCode < 200 || resp.StatusCode > 299
patchRejects(status) == status < 200 \/ status > 299

\* Patch after the response arrived
PatchFinish(r, status) ==
    IF patchRejects(status)
    THEN Done([r EXCEPT !.code = status],
              StatusError("unexpected salesforce response code", status))
    ELSE [r EXCEPT !.pc = "done", !.err = ErrNil, !.code = status]

\* a Post that trusts the status alone
postSucceeded_statusOnly(status, body) == status >= 200 /\ status <= 299

\* Post: the status is 2xx and the decoded body says success
postSucceeded(status, body) ==
    /\ status >= 200 /\ status <= 299
    /\ body.kind = "object"
    /\ body.success

\* Post after the response arrived
PostFinish(r, status, body) ==
    IF postSucceeded(status, body)
    THEN [r EXCEPT !.pc = "done", !.err = ErrNil, !.id = body.id]
    ELSE Done(r, StatusError("unable to create record", status))

\* Delete after the response arrived
DeleteFinish(r, status) ==
    IF status >= 200 /\ status <= 299
    THEN [r EXCEPT !.pc = "done", !.err = ErrNil]
    ELSE Done(r, StatusError("unable to delete record", status))

\* h.client.Do(req) fails with a transport error
DoFails ==
    /\ ~crashed
    /\ req.pc = "send"
    /\ IF req.helper.client = "nil"
       THEN \* Do is called on a nil interface value
            crashed' = TRUE /\ UNCHANGED req
       ELSE /\ req' = Done([req EXCEPT !.doCalls = @ + 1],
                         Wrap("unable to send request to salesforce", "transport"))
            /\ UNCHANGED crashed
    /\ UNCHANGED <<tokenVars, ctor>>

\* h.client.Do(req) returns a response, and the operation deals with it
Do(status, body) ==
    /\ ~crashed
    /\ req.pc = "send"
    /\ req.helper.client # "nil"
    /\ LET r == [req EXCEPT !.doCalls = @ + 1, !.status = status,
                            !.body = body] IN
       req' = CASE req.op = "Query" -> QueryFinish(r, status, body)
                [] req.op = "Patch" -> PatchFinish(r, status)
                [] req.op = "Post" -> PostFinish(r, status, body)
                [] OTHER -> DeleteFinish(r, status)
    /\ UNCHANGED <<tokenVars, crashed, ctor>>

\* the caller has the result; the helper, which keeps no state of a call, is
\* ready for the next one (prevGot remembers, for the record only, the token
\* that the call which returns got from the token source)
Return ==
    /\ ~crashed
    /\ req.pc = "done"
    /\ req' = [NoRequest EXCEPT !.pc = "ready", !.args = req.args,
                                !.made = req.made,
                                !.helper = req.helper, !.herr = req.herr,
                                !.prevGot = req.got]
    /\ UNCHANGED <<tokenVars, crashed, ctor>>

\* ------------------------------------------------------------ construction

\* the constructors of token.go
Constructors == {"NewTokenFetcher", "NewTokenCache"}

\* TokenParams: HttpClient and SMClient are set (TRUE) or nil, SMKey is a key
\* or empty, Backoff is a policy or nil
ParamSets ==
    [httpClient : BOOLEAN, smClient : BOOLEAN, smKey : {"", "key"},
     backoff : {"nil", "custom"}]

\* what the secrets manager answers for SMKey: an error, a binary secret
\* (SecretString is nil), a string that is not JSON, or the credential JSON
\* with a privateKeyBase64 that is not base64, that is base64 of bytes which
\* are no RSA PEM, or that is base64 of an RSA PEM
Secrets == {"unavailable", "binary", "notjson", "badbase64", "notpem", "pem"}

NewCtor(fn, params, secret) ==
    [fn |-> fn, params |-> params, secret |-> secret, pc |-> "start",
     smCalls |-> 0, err |-> NoError, backoff |-> "none"]

\* a validation that forgets the tag on SMKey
validateFails_noKey(params) == ~params.httpClient \/ ~params.smClient

\* validateTokenParams: the three fields tagged validate:"required"
validateFails(params) ==
    ~params.httpClient \/ ~params.smClient \/ params.smKey = ""

\* json.Unmarshal of the secret string into tokenFetcherCfg fails
credentialParseFails(secret) == secret = "notjson"

\* base64.StdEncoding.DecodeString(cfg.PrivateKeyBase64) fails
keyDecodeFails(secret) == secret = "badbase64"

\* the policy installed in the fetcher: p.Backoff, or the exponential default
installedBackoff(params) ==
    IF params.backoff = "nil" THEN "exponential" ELSE params.backoff

CtorFailed(c, e) == [c EXCEPT !.pc = "failed", !.err = e]

\* NewTokenFetcher, up to the call of the secrets manager
NewValidate ==
    /\ ~crashed
    /\ ctor.pc = "start"
    /\ ctor' = IF validateFails(ctor.params)
               THEN CtorFailed(ctor, "validation")
               ELSE [ctor EXCEPT !.pc = "secret"]
    /\ UNCHANGED <<tokenVars, crashed, req>>

\* p.SMClient.GetSecretValue(...) and the read of *cfgRaw.SecretString
NewGetSecret ==
    /\ ~crashed
    /\ ctor.pc = "secret"
    /\ LET c == [ctor EXCEPT !.smCalls = @ + 1] IN
       CASE ctor.secret = "unavailable" ->
               /\ ctor' = CtorFailed(c, "fetch credentials")
               /\ UNCHANGED crashed
         [] ctor.secret = "binary" ->
               \* cfgRaw.SecretString is nil: *cfgRaw.SecretString panics
               /\ ctor' = c
               /\ crashed' = TRUE
         [] OTHER ->
               /\ ctor' = [c EXCEPT !.pc = "credentials"]
               /\ UNCHANGED crashed
    /\ UNCHANGED <<tokenVars, req>>

\* the cache as NewTokenCache leaves it: the population runs, nothing is stored
PopulatingCache == [state |-> "Populating", value |-> NoToken, age |-> 0]

PopulatingFetch ==
    [[p \in Procs |-> IdleFetch] EXCEPT !["p1"] = StartAttempt(IdleFetch)]

\* NewTokenFetcher after the secret is read, and for NewTokenCache the
\* construction of the cache around the fetcher
NewBuild ==
    /\ ~crashed
    /\ ctor.pc = "credentials"
    /\ IF credentialParseFails(ctor.secret)
       THEN /\ ctor' = CtorFailed(ctor, "parse credentials")
            /\ UNCHANGED <<fetch, cache>>
       ELSE IF keyDecodeFails(ctor.secret)
       THEN /\ ctor' = CtorFailed(ctor, "decode private key")
            /\ UNCHANGED <<fetch, cache>>
       ELSE /\ ctor' = [ctor EXCEPT !.pc = "built",
                                    !.backoff = installedBackoff(ctor.params)]
            /\ IF ctor.fn = "NewTokenCache"
               THEN fetch' = PopulatingFetch /\ cache' = PopulatingCache
               ELSE UNCHANGED <<fetch, cache>>
    /\ UNCHANGED <<keyValid, callers, lastOutcome, lastGet, crashed, req, hist>>

\* a constructor call that has returned a cache built from valid inputs
BuiltCtor(pem) ==
    [fn |-> "NewTokenCache",
     params |-> [httpClient |-> TRUE, smClient |-> TRUE, smKey |-> "key",
                 backoff |-> "nil"],
     secret |-> IF pem THEN "pem" ELSE "notpem", pc |-> "built",
     smCalls |-> 1, err |-> NoError, backoff |-> "exponential"]

\* -------------------------------------------------------------- behaviour

\* NewTokenCache: the fetcher is built and the initial population is started
\* asynchronously; construction does not wait for it
Init ==
    /\ keyValid \in BOOLEAN
    /\ fetch = [[p \in Procs |-> IdleFetch] EXCEPT !["p1"] = StartAttempt(IdleFetch)]
    /\ cache = [state |-> "Populating", value |-> NoToken, age |-> 0]
    /\ callers = [c \in Callers |-> IdleCaller]
    /\ lastOutcome = "none"
    /\ lastGet = NoGet
    /\ crashed = FALSE
    /\ ctor = BuiltCtor(keyValid)
    /\ req = NoRequest
    /\ hist = NoHist

Next ==
    \/ \E p \in Procs : Sign(p)
    \/ \E p \in Procs : ObtainToken(p)
    \/ \E p \in Procs : Introspect(p)
    \/ \E p \in Procs : Backoff(p)
    \/ \E p \in Procs : FetchReturn(p)
    \/ \E c \in Callers : Get(c)
    \/ \E c \in Callers : Release(c)
    \/ \E c \in Callers : Cancel(c)
    \/ RefreshTimer
    \/ Tick

Spec == Init /\ [][Next]_vars

\* The refresh timer of the cache runs on a goroutine of its own: when a
\* refresh is due and stays due, the timer does fire.
SpecTimer == Spec /\ WF_vars(RefreshTimer)

\* Before a constructor is called: there is no fetcher and no cache yet.
\* keyValid says whether the key held in the secret is an RSA PEM.
InitNew ==
    /\ ctor \in {NewCtor(fn, params, secret) :
                    fn \in Constructors, params \in ParamSets, secret \in Secrets}
    /\ keyValid = (ctor.secret = "pem")
    /\ fetch = [p \in Procs |-> IdleFetch]
    /\ cache = [state |-> "None", value |-> NoToken, age |-> 0]
    /\ callers = [c \in Callers |-> IdleCaller]
    /\ lastOutcome = "none"
    /\ lastGet = NoGet
    /\ crashed = FALSE
    /\ req = NoRequest
    /\ hist = NoHist

NextNew ==
    \/ NewValidate
    \/ NewGetSecret
    \/ NewBuild

\* the construction of a token fetcher or token cache
SpecNew == InitNew /\ [][NextNew]_vars

\* A token cache has been built; its Get is the token source of the helper,
\* seen through the TokenGetter interface.
InitReq == Init /\ keyValid

NextReq ==
    \/ \E client \in Clients, tg \in TokenGetters, baseUrl \in BaseUrls,
          apiVersion \in ApiVersions :
          NewRequestHelper(client, tg, baseUrl, apiVersion)
    \/ \E client \in Clients, tg \in TokenGetters, baseUrl \in BaseUrls,
          apiVersion \in ApiVersions :
          RequestHelperLiteral(client, tg, baseUrl, apiVersion)
    \/ \E op \in Ops, q \in Queries \cup {NoQuery},
          record \in Records \cup {NoRecord} : Call(op, q, record)
    \/ \E token \in Tokens \cup {NoToken}, e \in Errors \cup {NoError} :
          GetToken(token, e)
    \/ DoFails
    \/ \E status \in ReqStatuses, body \in ReqBodies : Do(status, body)
    \/ Return

\* the request helper and its operations
SpecReq == InitReq /\ [][NextReq]_vars

\* the goroutine that calls Fetch on a fetcher of its own
Fetcher == "p1"

\* tf.Fetch(ctx) is called: RetryWithData resets the policy (b.Reset()) and
\* runs the operation for the first time
FetchCall ==
    /\ ~crashed
    /\ fetch[Fetcher].pc = "idle"
    /\ fetch' = [fetch EXCEPT ![Fetcher] = StartAttempt(IdleFetch)]
    /\ hist' = [NoHist EXCEPT !.on = TRUE, !.policyBefore = hist.policy]
    /\ UNCHANGED <<keyValid, cache, callers, lastOutcome, lastGet, crashed,
                   ctor, req>>

\* Fetch has returned (fetch[Fetcher].ret, fetch[Fetcher].err) to its caller;
\* the policy stays as the invocation left it
FetchDone ==
    /\ ~crashed
    /\ fetch[Fetcher].pc = "done"
    /\ fetch' = [fetch EXCEPT ![Fetcher] = IdleFetch]
    /\ UNCHANGED <<keyValid, cache, callers, lastOutcome, lastGet, crashed,
                   ctor, req, hist>>

\* NewTokenFetcher has returned a fetcher with a new policy; there is no cache
InitFetch ==
    /\ keyValid \in BOOLEAN
    /\ fetch = [p \in Procs |-> IdleFetch]
    /\ cache = [state |-> "None", value |-> NoToken, age |-> 0]
    /\ callers = [c \in Callers |-> IdleCaller]
    /\ lastOutcome = "none"
    /\ lastGet = NoGet
    /\ crashed = FALSE
    /\ ctor = [BuiltCtor(keyValid) EXCEPT !.fn = "NewTokenFetcher"]
    /\ req = NoRequest
    /\ hist = [NoHist EXCEPT !.on = TRUE]

NextFetch ==
    \/ FetchCall
    \/ Sign(Fetcher)
    \/ ObtainToken(Fetcher)
    \/ Introspect(Fetcher)
    \/ Backoff(Fetcher)
    \/ FetchDone

\* invocations of TokenFetcher.Fetch, one after the other, on one fetcher
SpecFetch == InitFetch /\ [][NextFetch]_vars

\* ----------------------------------------------------------------- claims

Is2xx(status) == status >= 200 /\ status <= 299

\* goroutine p is inside TokenFetcher.Fetch
InFetch(p) == fetch[p].pc \notin {"idle", "done"}

\* this step is caller c calling Get
CallsGet(c) == callers[c].pc = "idle" /\ callers'[c].pc # "idle"

\* this step is the cache taking the result of the fetch of goroutine p
Returns(p) == fetch[p].pc = "done" /\ fetch'[p].pc = "idle"

\* C1: at most one goroutine is inside Fetch (or handing its result to the
\* cache) at any moment, however many callers call Get and whenever the timer
\* fires.
C1_OneFetchInFlight ==
    Cardinality({p \in Procs : fetch[p].pc # "idle"}) <= 1

\* every caller arrived while the initial population was between its two
\* HTTP calls, and still there is one fetch
C1_Witness ==
    /\ \A c \in Callers : callers[c].pc = "waiting"
    /\ \E p \in Procs : fetch[p].pc = "introspect" /\ fetch[p].attempt = MaxAttempts

\* C2: construction leaves the population running; a Get during a refresh
\* returns the prior token at once; a Get during the initial population waits
\* and returns only in the step in which a fetch hands over its result, unless
\* its own context is cancelled first.
C2_GetDuringFetch ==
    /\ (cache.state = "Populating" /\ \E p \in Procs : fetch[p].pc = "sign")
    /\ [][\A c \in Callers :
            /\ (CallsGet(c) /\ cache.state = "Refreshing")
                  => callers'[c] = [pc |-> "returned", val |-> cache.value,
                                    err |-> NoError]
            /\ (CallsGet(c) /\ cache.state = "Populating")
                  => callers'[c].pc = "waiting"
            /\ (callers[c].pc = "waiting" /\ callers'[c].pc # "waiting")
                  => \/ \E p \in Procs : Returns(p)
                     \/ callers'[c].err = ContextCanceled]_vars

\* one caller got the prior token during a refresh that is still running
C2_Witness ==
    /\ cache.state = "Refreshing"
    /\ \E p \in Procs : InFetch(p)
    /\ lastGet.saw = "Refreshing"
    /\ callers[lastGet.who].pc = "returned"
    /\ callers[lastGet.who].val = cache.value
    /\ callers[lastGet.who].val \in Tokens

\* C3 (as claimed): Get never returns the empty token with a nil error.
C3_NeverZeroValue ==
    \A c \in Callers :
        ~(callers[c].pc = "returned" /\ callers[c].err = NoError
            /\ callers[c].val = NoToken)

\* C4 (as claimed): no Get returns, without error, a token older than the
\* provider's lifetime of 60 minutes.
C4_NeverExpired ==
    [][\A c \in Callers :
          (callers[c].pc # "returned" /\ callers'[c].pc = "returned"
             /\ callers'[c].err = NoError)
          => cache'.age <= tokenTtl]_vars

\* C5: an attempt whose introspect call is answered outside 200..299 fails
\* and hands no token on; a fetch that ends in failure leaves the cached value
\* as it was and gives no waiter a token; a Get on the empty cache starts a
\* fetch and waits.
C5_RejectedTokenNotCached ==
    [][/\ \A p \in Procs :
            (fetch[p].pc = "introspect" /\ fetch'[p].introStatus # NoStatus
                /\ ~Is2xx(fetch'[p].introStatus))
            => /\ fetch'[p].pc = "backoff"
               /\ fetch'[p].tok = NoToken
               /\ fetch'[p].ret = NoToken
               /\ cache' = cache
       /\ \A p \in Procs :
            (Returns(p) /\ fetch[p].err # NoError)
            => /\ cache'.value = cache.value
               /\ \A c \in Callers :
                     callers[c].pc = "waiting"
                     => callers'[c].err # NoError /\ callers'[c].val = NoToken
       /\ \A c \in Callers :
            (CallsGet(c) /\ cache.state = "Empty")
            => /\ callers'[c].pc = "waiting"
               /\ \E p \in Procs : fetch[p].pc = "idle" /\ fetch'[p].pc = "sign"]_vars

\* after a population that introspection rejected, a Get started a new fetch
C5_Witness ==
    /\ lastOutcome = "emptied"
    /\ cache.state = "Populating"
    /\ lastGet.saw = "Empty"
    /\ callers[lastGet.who].pc = "waiting"
    /\ \E c \in Callers : callers[c].pc = "returned" /\ callers[c].err = "status"

\* C6: a Get on a valid entry with no refresh in flight returns the cached
\* token with a nil error, starts no fetch and leaves the entry alone.
C6_GetOnValid ==
    [][\A c \in Callers :
          (CallsGet(c) /\ cache.state = "Valid")
          => /\ callers'[c] = [pc |-> "returned", val |-> cache.value,
                               err |-> NoError]
             /\ fetch' = fetch
             /\ cache' = cache]_vars

\* all callers hold the same token, read from a valid entry within its
\* refresh interval
C6_Witness ==
    /\ cache.state = "Valid"
    /\ cache.value \in Tokens
    /\ ~RefreshDue
    /\ \A p \in Procs : fetch[p].pc = "idle"
    /\ lastGet.saw = "Valid"
    /\ \A c \in Callers :
          /\ callers[c].pc = "returned"
          /\ callers[c].val = cache.value

\* C7: a refresh that fails leaves the entry Valid with the token and age it
\* had, and a Get after it returns that token.
C7_FailedRefreshKeepsToken ==
    /\ [][\A p \in Procs :
            (Returns(p) /\ fetch[p].err # NoError /\ cache.state = "Refreshing")
            => cache' = [cache EXCEPT !.state = "Valid"]]_vars
    /\ [][\A c \in Callers :
            (CallsGet(c) /\ lastOutcome = "kept" /\ cache.state = "Valid")
            => callers'[c].val = cache.value /\ callers'[c].err = NoError]_vars

\* a Get after a failed refresh returned the old token
C7_Witness ==
    /\ lastOutcome = "kept"
    /\ cache.state = "Valid"
    /\ cache.value \in Tokens
    /\ lastGet.saw = "Valid"
    /\ callers[lastGet.who].pc = "returned"
    /\ callers[lastGet.who].val = cache.value

\* C8: when the population fails, every caller waiting for it returns the
\* error of the fetch and no token, and the entry is Empty.
C8_FailedPopulation ==
    [][\A p \in Procs :
          (Returns(p) /\ fetch[p].err # NoError /\ cache.state = "Populating")
          => /\ cache' = [state |-> "Empty", value |-> NoToken, age |-> 0]
             /\ \A c \in Callers :
                   callers[c].pc = "waiting"
                   => /\ callers'[c].pc = "returned"
                      /\ callers'[c].err = fetch[p].err
                      /\ callers'[c].val = NoToken]_vars

\* every caller waited for a population that failed, one of them having
\* started it, and holds the error
C8_Witness ==
    /\ lastOutcome = "emptied"
    /\ cache.state = "Empty"
    /\ \A c \in Callers : callers[c].pc = "returned" /\ callers[c].err \in Errors
    /\ lastGet.saw = "Populating"

\* C9 (as claimed): an answer of the token endpoint outside 200..299 makes
\* the attempt fail.
C9_TokenStatusChecked ==
    [][\A p \in Procs :
          (fetch[p].pc = "token" /\ fetch'[p].tokStatus # NoStatus
              /\ ~Is2xx(fetch'[p].tokStatus))
          => fetch'[p].pc = "backoff"]_vars

\* C10: when Fetch returns a nil error, the token returned is the
\* access_token of the token response of the attempt that ended it, and the
\* introspect call of that attempt was answered within 200..299.
C10_FetchReturnsValidatedToken ==
    \A p \in Procs :
        (fetch[p].pc = "done" /\ fetch[p].err = NoError)
        => /\ fetch[p].ret = fetch[p].respTok
           /\ Is2xx(fetch[p].introStatus)

\* a Fetch succeeded on a retry with a token
C10_Witness ==
    \E p \in Procs :
        /\ fetch[p].pc = "done"
        /\ fetch[p].err = NoError
        /\ fetch[p].attempt = MaxAttempts
        /\ fetch[p].ret \in Tokens

\* C11: when the backoff policy says Stop after a failed attempt, Fetch
\* returns the error of that attempt and the empty token, whatever token the
\* attempts obtained, and holds no token when it returns.
C11_StopReturnsLastError ==
    [][\A p \in Procs :
          /\ (fetch[p].pc # "backoff" /\ fetch'[p].pc = "backoff")
                => fetch'[p].err \in Errors /\ fetch'[p].ret = NoToken
          /\ (fetch[p].pc = "backoff" /\ fetch'[p].pc = "done")
                => /\ fetch'[p].err = fetch[p].err
                   /\ fetch'[p].err \in Errors
                   /\ fetch'[p].ret = NoToken
          /\ (fetch'[p].pc = "done" /\ fetch'[p].err # NoError)
                => fetch'[p].tok = NoToken /\ fetch'[p].respTok = NoToken]_vars

\* Fetch gave up after its last allowed attempt, in which the token it had
\* obtained was rejected by introspect
C11_Witness ==
    \E p \in Procs :
        /\ fetch[p].pc = "done"
        /\ fetch[p].attempt = MaxAttempts
        /\ fetch[p].err = "status"
        /\ fetch[p].ret = NoToken

\* the constructor is called with a nil HTTP client, a nil secrets client or
\* an empty secret key
MissingDependency ==
    ~ctor.params.httpClient \/ ~ctor.params.smClient \/ ctor.params.smKey = ""

\* C12 (as claimed): with everything else valid, the constructor succeeds
\* exactly when the private key is a valid RSA PEM.
C12_BuiltIffValidPem ==
    (/\ ctor.pc \in {"built", "failed"}
     /\ ~MissingDependency
     /\ ctor.secret \in {"badbase64", "notpem", "pem"})
    => (ctor.pc = "built" <=> keyValid)

\* C13: a constructor called with a missing dependency fails with the
\* validation error without calling the secrets manager; the secrets manager
\* is never called twice, and it has been called once whenever a constructor
\* given all dependencies has returned.
C13_ValidationBeforeFetch ==
    /\ ctor.smCalls <= 1
    /\ MissingDependency
          => /\ ctor.smCalls = 0
             /\ ctor.pc \in {"start", "failed"}
             /\ ctor.pc = "failed" => ctor.err = "validation"
    /\ (~MissingDependency /\ ctor.pc \in {"built", "failed"})
          => ctor.smCalls = 1 /\ ctor.err # "validation"

\* NewTokenCache, given everything but the secret key, has failed
C13_Witness ==
    /\ ctor.fn = "NewTokenCache"
    /\ ctor.pc = "failed"
    /\ ctor.err = "validation"
    /\ ctor.params.httpClient /\ ctor.params.smClient /\ ctor.params.smKey = ""
    /\ ctor.smCalls = 0
    /\ cache.state = "None"

\* C14: cancelling the context of a waiting caller returns only that caller:
\* the fetch in flight, the cache entry and the other callers are untouched,
\* and the callers still waiting when the fetch returns receive its outcome.
C14_CancelIsLocal ==
    [][/\ \A c \in Callers :
            (/\ callers[c].pc = "waiting"
             /\ callers'[c].pc = "returned"
             /\ callers'[c].err = ContextCanceled)
            => /\ fetch' = fetch
               /\ cache' = cache
               /\ \A d \in Callers \ {c} : callers'[d] = callers[d]
       /\ \A p \in Procs :
            (fetch[p].pc = "done" /\ fetch'[p].pc = "idle")
            => \A d \in Callers :
                  callers[d].pc = "waiting"
                  => callers'[d] = [pc |-> "returned", val |-> fetch[p].ret,
                                    err |-> fetch[p].err]]_vars

\* a caller gave up during a population that is still running its introspect
\* call, and the other caller is still waiting for it
C14_Witness ==
    /\ cache.state = "Populating"
    /\ lastGet # NoGet
    /\ lastGet.saw = "Populating"
    /\ callers[lastGet.who].pc = "returned"
    /\ callers[lastGet.who].err = ContextCanceled
    /\ \E d \in Callers \ {lastGet.who} : callers[d].pc = "waiting"
    /\ \E p \in Procs : fetch[p].pc = "introspect" /\ fetch[p].tok \in Tokens

\* an operation has returned after the token source gave it an error
TokenErrorReturned == req.pc = "done" /\ req.tokenErr # NoError

\* the operation returned no result value
NoResult == req.resp = "nil" /\ req.id = "" /\ req.code = 0

\* C15 (as claimed): an operation whose token source fails returns the error
\* of the token source itself, unchanged, with no result value and without a
\* call of the HTTP client.
C15_TokenErrorUnchanged ==
    TokenErrorReturned
    => /\ req.err = Plain(req.tokenErr)
       /\ NoResult
       /\ req.doCalls = 0

\* C15 (amended): an operation whose token source fails returns an error that
\* is the error of the token source or wraps it, with no result value and
\* without a call of the HTTP client.
C15_TokenErrorIsCause ==
    TokenErrorReturned
    => /\ req.err # ErrNil
       /\ errorsIs(req.err, req.tokenErr)
       /\ NoResult
       /\ req.doCalls = 0

\* Patch has returned the wrapped error of a token source that failed
C15_Witness ==
    /\ TokenErrorReturned
    /\ req.op = "Patch"
    /\ req.tokenErr = "status"
    /\ req.err = Wrap("unable to create salesforce auth token", "status")
    /\ req.getCalls = 1

\* C16: Query returns a decoded response with a nil error only for status
\* 200; for every other status it returns a nil response and a QueryError
\* with that status and the query as the caller gave it; when the client
\* fails it returns a nil response and an error.
C16_QueryOnly200 ==
    (req.pc = "done" /\ req.op = "Query")
    => /\ (req.resp = "decoded" \/ (req.doCalls = 1 /\ req.err = ErrNil))
             => req.status = 200 /\ req.err = ErrNil
       /\ (req.status # NoStatus /\ req.status # 200)
             => /\ req.resp = "nil"
                /\ req.err = QueryError(req.status, req.q)
       /\ (req.doCalls = 1 /\ req.status = NoStatus)
             => req.resp = "nil" /\ req.err # ErrNil

\* Query got status 201 for a query with a space, which is escaped in the URL
\* and unescaped in the error
C16_Witness ==
    /\ req.pc = "done" /\ req.op = "Query"
    /\ req.status = 201
    /\ req.q = <<"a", " ", "b">>
    /\ req.escaped = <<"a", "+", "b">>
    /\ req.err.statusCode = 201
    /\ req.err.queryUsed = <<"a", " ", "b">>
    /\ req.resp = "nil"

\* C17: Patch returns (status, nil) exactly for a status in 200..299, the
\* status with an error for every other status, and (0, error) when it got no
\* response.
C17_PatchStatus ==
    (req.pc = "done" /\ req.op = "Patch")
    => /\ (req.err = ErrNil) <=> Is2xx(req.status)
       /\ req.status # NoStatus => req.code = req.status
       /\ req.status = NoStatus => req.code = 0 /\ req.err # ErrNil

\* Patch got status 300 and returned it with an error
C17_Witness ==
    /\ req.pc = "done" /\ req.op = "Patch"
    /\ req.status = 300
    /\ req.code = 300
    /\ req.err # ErrNil

\* the arguments NewRequestHelper asks for are there
HelperArgsValid ==
    /\ req.args.baseUrl # ""
    /\ req.args.apiVersion > 0
    /\ req.args.tokenGetter # "nil"

\* C18: NewRequestHelper returns a helper holding its four arguments and a
\* nil error exactly when the base URL is not empty, the API version is
\* positive and the token getter is not nil; otherwise a nil helper and an
\* error.
C18_HelperIffValid ==
    req.made = "NewRequestHelper"
    => /\ HelperArgsValid
             <=> (req.helper.set /\ req.helper = req.args /\ req.herr = ErrNil)
       /\ ~HelperArgsValid => req.helper = NilHelper /\ req.herr # ErrNil

\* NewRequestHelper refused a negative API version
C18_Witness ==
    /\ req.made = "NewRequestHelper"
    /\ req.pc = "failed"
    /\ req.args.baseUrl = "baseUrl"
    /\ req.args.tokenGetter = "tokenGetter"
    /\ req.args.apiVersion = -1
    /\ req.helper = NilHelper
    /\ req.herr # ErrNil

\* C19: Post returns a nil error, with the id of the body, exactly when the
\* status is 2xx and the body decodes to success=true; in every other case
\* (success=false, another status, undecodable body, client error, token
\* error) it returns an empty id and an error.
C19_PostSuccess ==
    (req.pc = "done" /\ req.op = "Post")
    => /\ (req.err = ErrNil)
             <=> (Is2xx(req.status) /\ req.body.kind = "object"
                  /\ req.body.success)
       /\ req.err = ErrNil => req.id = req.body.id
       /\ req.err # ErrNil => req.id = ""

\* Post got status 201 and a body with an id and success=false
C19_Witness ==
    /\ req.pc = "done" /\ req.op = "Post"
    /\ req.status = 201
    /\ req.body = [kind |-> "object", id |-> "001xx", success |-> FALSE]
    /\ req.id = ""
    /\ req.err # ErrNil

\* C20: a call of Query or Patch calls Get at most once and Do at most once,
\* Do never before Get, and an error ends the call.
C20_NoRetry ==
    req.op \in {"Query", "Patch"}
    => /\ req.getCalls <= 1
       /\ req.doCalls <= 1
       /\ req.doCalls <= req.getCalls
       /\ req.err # ErrNil => req.pc = "done"

\* Query has returned the error of the one call of Do it made
C20_Witness ==
    /\ req.pc = "done" /\ req.op = "Query"
    /\ req.getCalls = 1 /\ req.doCalls = 1
    /\ req.err = Wrap("unable to send request to salesforce", "transport")

\* C21: the request that Query or Patch hands to the HTTP client carries the
\* token that Get returned in the same call, whatever token the call before
\* carried, and outside a call no token is attached.
C21_BearerIsGotToken ==
    req.op \in {"Query", "Patch"}
    => /\ (req.pc = "send" \/ req.doCalls = 1) => req.bearer = req.got
       /\ req.getCalls = 0 => req.bearer = NoToken

\* after a call that got the token t1, Patch has sent a request with the
\* token t2 that its own Get returned
C21_Witness ==
    /\ req.pc = "done" /\ req.op = "Patch"
    /\ req.prevGot = "t1"
    /\ req.got = "t2"
    /\ req.bearer = "t2"
    /\ req.doCalls = 1

\* this step calls the token endpoint
TokenCallStep == hist'.tokenCalls = hist.tokenCalls + 1

\* this step calls the introspect endpoint
IntrospectCallStep == hist'.introCalls = hist.introCalls + 1

\* C22: every attempt of a Fetch starts at the signing step; the assertion
\* that goes to the token endpoint is the one signed in the same attempt and
\* was never sent before; a signing failure ends the attempt, not the Fetch:
\* it goes to the backoff policy with the error.
C22_RetriedAsOneUnit ==
    [][/\ fetch'[Fetcher].attempt = fetch[Fetcher].attempt + 1
             => fetch'[Fetcher].pc = "sign"
       /\ (fetch[Fetcher].pc = "sign" /\ fetch'[Fetcher].pc = "token")
             => hist'.jwts = hist.jwts + 1
       /\ TokenCallStep
             => /\ hist'.sentJwt = hist.jwts
                /\ hist.jwts > hist.sentJwt
                /\ hist.jwts = fetch[Fetcher].attempt
       /\ (fetch[Fetcher].pc = "sign" /\ generateJwtFails)
             => /\ fetch'[Fetcher].pc = "backoff"
                /\ fetch'[Fetcher].err = "sign"
                /\ hist'.calls = hist.calls]_vars

\* the second attempt of a Fetch that cannot sign has failed like the first,
\* after the policy was asked once
C22_Witness ==
    /\ hist.on
    /\ ~keyValid
    /\ fetch[Fetcher].pc = "backoff"
    /\ fetch[Fetcher].attempt = 2
    /\ fetch[Fetcher].err = "sign"
    /\ hist.polls = 1
    /\ hist.calls = 0

\* an attempt of the followed invocation has ended
AttemptEnded == hist.on /\ fetch[Fetcher].pc \in {"backoff", "done"}

\* C23 (as claimed): every attempt makes the two HTTP calls, one to the token
\* endpoint and one to the introspect endpoint.
C23_TwoCallsPerAttempt ==
    AttemptEnded => hist.tokenCalls = 1 /\ hist.introCalls = 1

\* C23 (amended): an attempt makes at most one call to the token endpoint and
\* then at most one to the introspect endpoint, never the second without the
\* first; an attempt that succeeds has made exactly the two, an attempt that
\* fails has made those up to the step that failed.
C23_AtMostTwoCallsInOrder ==
    hist.on
    => /\ hist.tokenCalls <= 1
       /\ hist.introCalls <= hist.tokenCalls
       /\ fetch[Fetcher].pc = "introspect"
             => hist.tokenCalls = 1 /\ hist.introCalls = 0
       /\ (fetch[Fetcher].pc = "done" /\ fetch[Fetcher].err = NoError)
             => hist.tokenCalls = 1 /\ hist.introCalls = 1
       /\ (AttemptEnded /\ fetch[Fetcher].err = "sign") => hist.tokenCalls = 0
       /\ (AttemptEnded /\ fetch[Fetcher].err \in {"read", "decode"})
             => hist.tokenCalls = 1 /\ hist.introCalls = 0
       /\ (AttemptEnded /\ fetch[Fetcher].err = "status")
             => hist.tokenCalls = 1 /\ hist.introCalls = 1

\* the second attempt of a Fetch succeeded with its two calls, after a first
\* attempt that made two calls as well
C23_Witness ==
    /\ hist.on
    /\ fetch[Fetcher].pc = "done"
    /\ fetch[Fetcher].err = NoError
    /\ fetch[Fetcher].attempt = 2
    /\ hist.tokenCalls = 1 /\ hist.introCalls = 1
    /\ hist.calls = 4

\* C24 (as claimed): when Fetch returns, the backoff policy of the fetcher is
\* in the state it was in when Fetch was called (the credentials and the HTTP
\* client, which no step assigns, are the same as well).
C24_FetchLeavesFetcherUnchanged ==
    [][(hist.on /\ fetch[Fetcher].pc = "done" /\ fetch'[Fetcher].pc = "idle")
          => /\ hist'.policy = hist.policyBefore
             /\ keyValid' = keyValid
             /\ ctor' = ctor]_vars

\* the payload of the call cannot be encoded, or its URL does not parse
CannotBuildRequest ==
    \/ req.op = "Patch" /\ req.record = "unencodable"
    \/ req.op \in {"Query", "Patch"} /\ req.helper.baseUrl = ":"

\* C25: a call of Query or Patch whose payload cannot be encoded or whose URL
\* is malformed has returned an error, with no result value, before the token
\* source and the HTTP client are touched: whatever they are, nil included,
\* the call does not crash.
C25_BuildFailsBeforeGet ==
    CannotBuildRequest
    => /\ req.pc = "done"
       /\ req.err # ErrNil
       /\ req.err.msg \in {"unable to create salesforce payload",
                           "unable to create salesforce request"}
       /\ NoResult
       /\ req.getCalls = 0
       /\ req.doCalls = 0
       /\ ~crashed

\* Patch on a helper with a malformed base URL, a nil token getter and a nil
\* client has returned 0 and the error of the request constructor
C25_Witness ==
    /\ req.pc = "done" /\ req.op = "Patch"
    /\ req.made = "literal"
    /\ req.helper.tokenGetter = "nil"
    /\ req.helper.client = "nil"
    /\ req.helper.baseUrl = ":"
    /\ req.err = Wrap("unable to create salesforce request", "parse url")
    /\ req.code = 0
    /\ ~crashed

\* C26: whenever the entry is valid and its refresh interval has elapsed, a
\* refresh fetch is eventually started, callers or no callers; the step that
\* starts it is not a step of Get: it leaves every caller where it was, and a
\* Get that finds a valid entry starts no fetch.
C26_TimerStartsRefresh ==
    /\ (cache.state = "Valid" /\ cache.age >= tokenCacheTtl)
          ~> (cache.state = "Refreshing")
    /\ [][(cache.state = "Valid" /\ cache'.state = "Refreshing")
             => /\ callers' = callers
                /\ cache.age >= tokenCacheTtl
                /\ \E p \in Procs : fetch[p].pc = "idle" /\ fetch'[p].pc = "sign"]_vars
    /\ [][\A c \in Callers :
             (CallsGet(c) /\ cache.state = "Valid") => fetch' = fetch]_vars

\* a refresh runs on an entry that is 58 minutes old, and no caller has ever
\* called Get
C26_Witness ==
    /\ cache.state = "Refreshing"
    /\ cache.age = tokenCacheTtl
    /\ cache.value \in Tokens
    /\ lastGet = NoGet
    /\ \A c \in Callers : callers[c] = IdleCaller
    /\ \E p \in Procs : fetch[p].pc = "sign"

\* C27: inside an attempt the token endpoint is called only after the
\* assertion of that attempt was signed; the introspect endpoint only after
\* the token call of that attempt returned a body that was read and decoded,
\* and with the token of that body; once a step has failed, no HTTP call is
\* made until the next attempt has signed its assertion.
C27_StepsAreGated ==
    [][/\ TokenCallStep
             => /\ fetch[Fetcher].pc = "token"
                /\ keyValid
                /\ hist.jwts = fetch[Fetcher].attempt
                /\ hist.tokenCalls = 0 /\ hist.introCalls = 0
       /\ IntrospectCallStep
             => /\ fetch[Fetcher].pc = "introspect"
                /\ hist.tokenCalls = 1 /\ hist.introCalls = 0
                /\ hist.body = "object"
                /\ hist'.introTok = fetch[Fetcher].respTok
       /\ hist'.calls > hist.calls
             => /\ fetch[Fetcher].pc \in {"token", "introspect"}
                /\ fetch[Fetcher].err = NoError
       /\ (fetch[Fetcher].pc \in {"sign", "token", "introspect"}
           /\ fetch'[Fetcher].err # NoError)
             => fetch'[Fetcher].pc = "backoff"]_vars

\* the token endpoint answered with text that is not JSON: the attempt ended
\* after this one call
C27_Witness ==
    /\ hist.on
    /\ fetch[Fetcher].pc = "backoff"
    /\ fetch[Fetcher].err = "decode"
    /\ hist.body = "notjson"
    /\ hist.tokenCalls = 1
    /\ hist.introCalls = 0

\* C28: a Fetch runs its first attempt before the policy is ever asked; the
\* policy is asked only after an attempt that failed, once per failed attempt;
\* a Fetch that has an attempt succeed returns there: it asks no policy, starts
\* no attempt and makes no HTTP call after it.
C28_StopsAtFirstSuccess ==
    [][/\ hist'.polls = hist.polls + 1
             => /\ fetch[Fetcher].pc = "backoff"
                /\ fetch[Fetcher].err # NoError
                /\ fetch[Fetcher].attempt = hist.polls + 1
       /\ fetch'[Fetcher].pc = "done"
             => /\ fetch'[Fetcher].attempt >= 1
                /\ hist'.polls = IF fetch'[Fetcher].err = NoError
                                 THEN fetch'[Fetcher].attempt - 1
                                 ELSE fetch'[Fetcher].attempt
       /\ fetch[Fetcher].pc = "done"
             => /\ fetch'[Fetcher].pc = "idle"
                /\ hist' = hist]_vars

\* the policy said Stop after the first attempt, which had made both calls
C28_Witness ==
    /\ hist.on
    /\ fetch[Fetcher].pc = "done"
    /\ fetch[Fetcher].attempt = 1
    /\ fetch[Fetcher].err = "status"
    /\ hist.polls = 1
    /\ hist.calls = 2

\* C29: the value of the cache changes only in the step in which a Fetch that
\* succeeded hands over its token, and then it becomes that token, whatever
\* was held before; a Get that returns a value returns the value held at that
\* moment, and a waiter the token of the Fetch it waited for.
C29_ValueIsLatestFetched ==
    [][/\ \A p \in Procs :
            (Returns(p) /\ fetch[p].err = NoError)
            => cache' = [state |-> "Valid", value |-> fetch[p].ret, age |-> 0]
       /\ cache'.value # cache.value
            => \E p \in Procs : /\ Returns(p)
                                /\ fetch[p].err = NoError
                                /\ cache'.value = fetch[p].ret
       /\ \A c \in Callers :
            (CallsGet(c) /\ callers'[c].pc = "returned")
            => callers'[c].val = cache.value /\ cache.state \in {"Valid", "Refreshing"}
       /\ \A c \in Callers :
            (callers[c].pc = "waiting" /\ callers'[c].pc = "returned"
             /\ callers'[c].err = NoError)
            => \E p \in Procs : Returns(p) /\ callers'[c].val = fetch[p].ret]_vars

\* one caller still holds the token t1 it was given; a refresh has since
\* stored t2, and the Get of the other caller returned t2
C29_Witness ==
    /\ cache = [state |-> "Valid", value |-> "t2", age |-> 0]
    /\ lastOutcome = "stored"
    /\ lastGet # NoGet
    /\ lastGet.saw = "Valid"
    /\ callers[lastGet.who] = [pc |-> "returned", val |-> "t2", err |-> NoError]
    /\ \E c \in Callers \ {lastGet.who} :
          callers[c] = [pc |-> "returned", val |-> "t1", err |-> NoError]

\* C30 (as claimed): a Fetch that is running can always go on to return a
\* token or an error, and so can a Get that waits for it: neither is ever cut
\* off by the death of the process.
C30_FetchAlwaysReturns ==
    /\ \A p \in Procs : InFetch(p) => ~crashed
    /\ \A c \in Callers : callers[c].pc = "waiting" => ~crashed

====
